---- MODULE Spec2Model ----
(***************************************************************************)
(* Model of the call session orchestrator of element-call:                 *)
(*   src/src/room/GroupCallView.tsx  (view selection, lifecycle effects,    *)
(*                                    widget JoinCall / HangupCall bridge)  *)
(*                                                                         *)
(* The component is single threaded: the code between two `await`s runs    *)
(* atomically, so every action below is one such run.  A React state       *)
(* change, the re-render it causes and the effects whose dependencies      *)
(* changed are taken as one step.                                          *)
(***************************************************************************)
EXTENDS Integers, Sequences, FiniteSets, TLC

\* ------------------------------------------------------------------ bounds
MaxJoin == 2        \* JoinCall commands the host sends in one session
MaxHangup == 2      \* HangupCall commands the host sends in one session
MaxLeave == 1       \* presses of the in-call leave button in one session
MaxLobbyEnter == 1  \* presses of the Lobby "enter" action in one session

JoinCmds == 1..MaxJoin
HangupCmds == 1..MaxHangup
LeaveIds == 1..MaxLeave
LobbyIds == 1..MaxLobbyEnter
MaxEnumerate == 2   \* device enumerations of the switcher in one preview

\* ------------------------------------------------------------ data values
\* GroupCallState as the component observes it (useGroupCall().state)
RemoteStates == {"NotEntered", "Entering", "Entered"}

\* JoinCallData.audioInput / videoInput: a device name, or null
Null == "<null>"
AudioInputs == {Null, "Built-in Mic", "Ghost Mic"}
VideoInputs == {Null, "HD Camera", "Built-in Mic"}

\* the device list Room.getLocalDevices() resolves to
Devices ==
  { [kind |-> "audioinput", label |-> "Built-in Mic", deviceId |-> "mic-1"],
    [kind |-> "videoinput", label |-> "HD Camera", deviceId |-> "cam-1"] }

\* an optional DeviceChoices value: <<>> is "no such key", <<c>> is the entry c
DeviceChoice(id, enabled) == << [selectedId |-> id, enabled |-> enabled] >>
NoChoice == << >>

\* useState<UserChoices | undefined>(undefined)
Undefined == [defined |-> FALSE, audio |-> NoChoice, video |-> NoChoice]
Choices(a, v) == [defined |-> TRUE, audio |-> a, video |-> v]

\* the choices the Lobby hands to onEnter
LobbyChoices ==
  { Choices(DeviceChoice("mic-1", TRUE), DeviceChoice("cam-1", TRUE)),
    Choices(DeviceChoice("mic-1", FALSE), NoChoice) }

\* media kinds, with the device ids the system has for each
Kinds == {"audioinput", "videoinput"}
DeviceIds(k) == IF k = "audioinput" THEN {"mic-1", "mic-2"} ELSE {"cam-1", "cam-2"}
NoIds == [k \in Kinds |-> ""]

\* who invoked enter(): a JoinCall handler, the embedded auto-enter effect,
\* or the Lobby enter action
Origins == ({"join"} \X JoinCmds) \cup {<<"auto", 0>>} \cup ({"lobby"} \X LobbyIds)

VARIABLES
  \* props and process-wide collaborators, fixed for one session
  widget,               \* the module-level `widget` helper is non-null
  preload,
  isEmbedded,
  isPasswordlessUser,
  analyticsEnabled,     \* PosthogAnalytics.instance.isEnabled()
  livekitServiceURL,    \* TRUE iff a service URL is resolvable
  \* component
  mounted,              \* "no" (constructed), "yes", "gone" (unmounted)
  state,                \* useGroupCall().state
  error,                \* useGroupCall().error is set
  userChoices,
  left,
  windowGroupCall,      \* window.groupCall is set
  joinListener,         \* onJoin is registered on widget.lazyActions
  hangupListener,       \* onHangup is registered (once) on widget.lazyActions
  navigatedHome,        \* history.push("/") was called
  \* handlers
  joinPc, joinTrace,
  joinData,             \* the JoinCallData payload read last by onJoin
  hangupPc, hangupTrace,
  hangupSettled,        \* a hangup has run to its end and no JoinCall was
                        \* received since
  leavePc, leaveTrace,
  \* collaborators' observations
  enterStatus,          \* per origin: "none", "inflight", "ok", "failed"
  started,              \* per origin: eventCallStarted.track calls
  callEnded,            \* eventCallEnded.track calls
  leaveCalls,           \* leave() calls
  replies,              \* per command: transport.reply calls
  alwaysOnScreen,       \* last value given to setAlwaysOnScreen, FALSE at start
  hostHangups,          \* HangupCall notifications sent to the host
  \* VideoPreview (the Lobby's device preview and selection controller)
  previewMounted,       \* VideoPreview has rendered
  defaultDevices,       \* useDefaultDevices()[0], per kind; "" is undefined
  initialDefaultDevices, \* the ref of line 71
  defaultsAtMount,      \* the default-device settings at the first render
  trackOptions,         \* device ids usePreviewTracks acquires the tracks with
  acquiring,            \* the track acquisition is pending
  tracks,               \* per kind: "none", or what the track's getDeviceId()
                        \* resolves to: a device id, or "unknown" (undefined)
  selectedId,           \* videoIn.selectedId / audioIn.selectedId; "" is unset
  enabled,              \* videoEnabled / audioEnabled
  idQuery,              \* per kind: a getDeviceId() promise is pending
  emitted,              \* last argument of onUserChoicesChanged
  lastExplicit,         \* per kind: the id the user selected last, "" if none
  enumerations,         \* device enumerations of the switcher
  permissionRequests    \* enumeration-permission requests of the switcher

props == << widget, preload, isEmbedded, isPasswordlessUser, analyticsEnabled,
            livekitServiceURL >>
comp == << mounted, state, error, userChoices, left, windowGroupCall,
           joinListener, hangupListener, navigatedHome >>
joinVars == << joinPc, joinData, joinTrace >>
hangupVars == << hangupPc, hangupTrace, hangupSettled >>
leaveVars == << leavePc, leaveTrace >>
obs == << enterStatus, started, callEnded, leaveCalls, replies, alwaysOnScreen,
          hostHangups >>
preview == << previewMounted, defaultDevices, initialDefaultDevices,
             defaultsAtMount, trackOptions, acquiring, tracks, selectedId,
             enabled, idQuery, emitted, lastExplicit, enumerations,
             permissionRequests >>
session == << props, comp, joinVars, hangupVars, leaveVars, obs >>
vars == << session, preview >>

\* ---------------------------------------------------------- view selection
\* variant: the Entered branch is tested before the error branch
SelectView_EnteredFirst(url, err, st, uc, lf, pl, emb, pw, an) ==
  IF ~url THEN "Error"
  ELSE IF st = "Entered" /\ uc.defined THEN "ActiveCall"
  ELSE IF err THEN "Error"
  ELSE IF lf THEN (IF pw \/ (an /\ ~emb) THEN "CallEnded" ELSE "Nothing")
  ELSE IF pl THEN "Nothing"
  ELSE IF emb THEN "Loading"
  ELSE "Lobby"

\* variant: the call ended view is shown to embedded users with analytics too
SelectView_LeftIgnoresEmbedded(url, err, st, uc, lf, pl, emb, pw, an) ==
  IF ~url THEN "Error"
  ELSE IF err THEN "Error"
  ELSE IF st = "Entered" /\ uc.defined THEN "ActiveCall"
  ELSE IF lf THEN (IF pw \/ an THEN "CallEnded" ELSE "Nothing")
  ELSE IF pl THEN "Nothing"
  ELSE IF emb THEN "Loading"
  ELSE "Lobby"

\* variant: the isEmbedded branch is tested before the preload branch
SelectView_EmbeddedFirst(url, err, st, uc, lf, pl, emb, pw, an) ==
  IF ~url THEN "Error"
  ELSE IF err THEN "Error"
  ELSE IF st = "Entered" /\ uc.defined THEN "ActiveCall"
  ELSE IF lf THEN (IF pw \/ (an /\ ~emb) THEN "CallEnded" ELSE "Nothing")
  ELSE IF emb THEN "Loading"
  ELSE IF pl THEN "Nothing"
  ELSE "Lobby"

\* The render result of GroupCallView as a tag.
SelectView(url, err, st, uc, lf, pl, emb, pw, an) ==
  IF ~url THEN "Error"
  ELSE IF err THEN "Error"
  ELSE IF st = "Entered" /\ uc.defined THEN "ActiveCall"
  ELSE IF lf THEN (IF pw \/ (an /\ ~emb) THEN "CallEnded" ELSE "Nothing")
  ELSE IF pl THEN "Nothing"
  ELSE IF emb THEN "Loading"
  ELSE "Lobby"

View ==
  SelectView(livekitServiceURL, error, state, userChoices, left, preload,
             isEmbedded, isPasswordlessUser, analyticsEnabled)

\* --------------------------------------------------------------- helpers
\* findDeviceByName(deviceName, kind, devices): the id of the device of that
\* kind carrying that label, "" (falsy) when there is none
findDeviceByName(deviceName, kind, devices) ==
  LET found == { d \in devices : d.kind = kind /\ d.label = deviceName }
  IN IF found = {} THEN "" ELSE (CHOOSE d \in found : TRUE).deviceId

\* variant: the `!deviceId` tests are missing, an unknown name gets an entry
JoinChoices_UnknownKept(data, devices) ==
  LET audioId == IF data.audioInput # Null
                 THEN findDeviceByName(data.audioInput, "audioinput", devices)
                 ELSE ""
      videoId == IF data.videoInput # Null
                 THEN findDeviceByName(data.videoInput, "videoinput", devices)
                 ELSE ""
  IN Choices(IF data.audioInput # Null THEN DeviceChoice(audioId, TRUE) ELSE NoChoice,
             IF data.videoInput # Null THEN DeviceChoice(videoId, TRUE) ELSE NoChoice)

\* newChoices of onJoin for the payload data
JoinChoices(data, devices) ==
  LET audioId == IF data.audioInput # Null
                 THEN findDeviceByName(data.audioInput, "audioinput", devices)
                 ELSE ""
      videoId == IF data.videoInput # Null
                 THEN findDeviceByName(data.videoInput, "videoinput", devices)
                 ELSE ""
  IN Choices(IF audioId # "" THEN DeviceChoice(audioId, TRUE) ELSE NoChoice,
             IF videoId # "" THEN DeviceChoice(videoId, TRUE) ELSE NoChoice)

\* setUserChoices: React drops a state update of an unmounted component
SetUserChoices(uc) == IF mounted = "yes" THEN uc ELSE userChoices

\* variant: the HangupCall listener is registered whatever the state is
HangupEffect_NoStateTest(m, st) == widget /\ m = "yes"

\* the HangupCall effect: the listener is registered iff widget && state === Entered
HangupEffect(m, st) == widget /\ m = "yes" /\ st = "Entered"

\* the effect's dependency `state` changes to st: cleanup, then the effect
\* runs again; an unchanged `state` leaves the registration as it is
EffectAfter(st) ==
  IF st = state THEN hangupListener ELSE HangupEffect(mounted, st)

\* enter() of useGroupCall, invoked by origin o: the call object is asked to
\* go to Entering; the returned promise settles later
EnterInvoked(o) ==
  /\ enterStatus' = [enterStatus EXCEPT ![o] = "inflight"]
  /\ state' = IF state = "NotEntered" THEN "Entering" ELSE state

\* the promise of enter() of origin o resolves: the call object is Entered
EnterFulfilled(o) ==
  /\ enterStatus' = [enterStatus EXCEPT ![o] = "ok"]
  /\ state' = "Entered"
  /\ hangupListener' = EffectAfter("Entered")

\* the promise of enter() of origin o rejects: the error is surfaced
EnterFailed(o) ==
  /\ enterStatus' = [enterStatus EXCEPT ![o] = "failed"]
  /\ error' = TRUE

\* leave() of useGroupCall: the call object goes back to NotEntered, the
\* HangupCall effect is cleaned up
LeaveInvoked ==
  /\ leaveCalls' = leaveCalls + 1
  /\ state' = "NotEntered"
  /\ hangupListener' = FALSE

\* VideoPreview before its first render
PreviewIdle ==
  /\ previewMounted = FALSE
  /\ defaultDevices = NoIds
  /\ initialDefaultDevices = NoIds
  /\ defaultsAtMount = NoIds
  /\ trackOptions = NoIds
  /\ acquiring = FALSE
  /\ tracks = [k \in Kinds |-> "none"]
  /\ selectedId = NoIds
  /\ enabled = [k \in Kinds |-> TRUE]
  /\ idQuery = [k \in Kinds |-> FALSE]
  /\ emitted = Undefined
  /\ lastExplicit = NoIds
  /\ enumerations = 0
  /\ permissionRequests = 0

\* ------------------------------------------------------------------ Init
Init ==
  /\ widget \in BOOLEAN
  /\ preload \in BOOLEAN
  /\ isEmbedded \in BOOLEAN
  /\ isPasswordlessUser \in BOOLEAN
  /\ analyticsEnabled \in BOOLEAN
  /\ livekitServiceURL \in BOOLEAN
  /\ mounted = "no"
  /\ state = "NotEntered"
  /\ error = FALSE
  /\ userChoices = Undefined
  /\ left = FALSE
  /\ windowGroupCall = FALSE
  /\ joinListener = FALSE
  /\ hangupListener = FALSE
  /\ navigatedHome = FALSE
  /\ joinPc = [c \in JoinCmds |-> "unsent"]
  /\ joinData = [audioInput |-> Null, videoInput |-> Null]
  /\ joinTrace = [c \in JoinCmds |-> << >>]
  /\ hangupPc = [h \in HangupCmds |-> "unsent"]
  /\ hangupTrace = [h \in HangupCmds |-> << >>]
  /\ hangupSettled = FALSE
  /\ leavePc = [k \in LeaveIds |-> "idle"]
  /\ leaveTrace = [k \in LeaveIds |-> << >>]
  /\ enterStatus = [o \in Origins |-> "none"]
  /\ started = [o \in Origins |-> 0]
  /\ callEnded = 0
  /\ leaveCalls = 0
  /\ replies = [c \in ({"join"} \X JoinCmds) \cup ({"hangup"} \X HangupCmds) |-> 0]
  /\ alwaysOnScreen = FALSE
  /\ hostHangups = 0
  /\ PreviewIdle

\* ------------------------------------------------- mount / unmount / errors
\* first render: the effects run in source order
Mount ==
  /\ mounted = "no"
  /\ mounted' = "yes"
  /\ windowGroupCall' = TRUE
  /\ joinListener' = (widget /\ preload)
  /\ IF isEmbedded /\ ~preload
     THEN /\ EnterInvoked(<<"auto", 0>>)
          /\ started' = [started EXCEPT ![<<"auto", 0>>] = @ + 1]
     ELSE UNCHANGED << enterStatus, state, started >>
  /\ hangupListener' = HangupEffect("yes", state')
  /\ UNCHANGED << props, preview, error, userChoices, left, navigatedHome, joinVars,
                  hangupVars, leaveVars, callEnded, leaveCalls, replies,
                  alwaysOnScreen, hostHangups >>

\* variant: the cleanup of the window.groupCall effect is missing
Unmount_NoCleanup ==
  /\ mounted = "yes"
  /\ mounted' = "gone"
  /\ joinListener' = FALSE
  /\ hangupListener' = FALSE
  /\ UNCHANGED << props, preview, state, error, userChoices, left,
                  windowGroupCall, navigatedHome, joinVars, hangupVars,
                  leaveVars, obs >>

\* the component unmounts: every effect's cleanup runs
Unmount ==
  /\ mounted = "yes"
  /\ mounted' = "gone"
  /\ windowGroupCall' = FALSE
  /\ joinListener' = FALSE
  /\ hangupListener' = FALSE
  /\ UNCHANGED << props, preview, state, error, userChoices, left, navigatedHome,
                  joinVars, hangupVars, leaveVars, obs >>

\* the call object reports an error (useGroupCall().error)
GroupCallError ==
  /\ mounted = "yes"
  /\ ~error
  /\ error' = TRUE
  /\ UNCHANGED << props, preview, mounted, state, userChoices, left, windowGroupCall,
                  joinListener, hangupListener, navigatedHome, joinVars,
                  hangupVars, leaveVars, obs >>

\* the promise of the auto-enter's or of a Lobby enter()'s call settles; the
\* caller did not await it
EnterSettled(o, ok) ==
  /\ o[1] # "join"
  /\ enterStatus[o] = "inflight"
  /\ IF ok
     THEN EnterFulfilled(o) /\ UNCHANGED error
     ELSE EnterFailed(o) /\ UNCHANGED << state, hangupListener >>
  /\ UNCHANGED << props, preview, mounted, userChoices, left, windowGroupCall,
                  joinListener, navigatedHome, joinVars, hangupVars, leaveVars,
                  started, callEnded, leaveCalls, replies, alwaysOnScreen,
                  hostHangups >>

\* ---------------------------------------------------------------- Lobby
\* LobbyView's onEnter(choices)
LobbyEnter(k, choices) ==
  /\ mounted = "yes"
  /\ View = "Lobby"
  /\ enterStatus[<<"lobby", k>>] = "none"
  /\ \A j \in LobbyIds : j < k => enterStatus[<<"lobby", j>>] # "none"
  /\ userChoices' = choices
  /\ EnterInvoked(<<"lobby", k>>)
  /\ hangupListener' = EffectAfter(state')
  /\ UNCHANGED << props, preview, mounted, error, left, windowGroupCall, joinListener,
                  navigatedHome, joinVars, hangupVars, leaveVars, started,
                  callEnded, leaveCalls, replies, alwaysOnScreen, hostHangups >>

\* ------------------------------------------------- JoinCall (host -> onJoin)
Append2(tr, a, b) == Append(Append(tr, a), b)

\* the host posts JoinCall; widget.lazyActions holds it until onJoin listens
HostSendJoin(c) ==
  /\ widget
  /\ joinPc[c] = "unsent"
  /\ \A j \in JoinCmds : j < c => joinPc[j] # "unsent"
  /\ joinPc' = [joinPc EXCEPT ![c] = "sent"]
  /\ UNCHANGED << props, preview, comp, joinData, joinTrace, hangupVars, leaveVars, obs >>

\* onJoin starts: Room.getLocalDevices() is awaited.  widget.lazyActions hands
\* the commands over in the order the host posted them
OnJoin(c) ==
  /\ joinListener
  /\ joinPc[c] = "sent"
  /\ \A j \in JoinCmds : j < c => joinPc[j] # "sent"
  /\ joinPc' = [joinPc EXCEPT ![c] = "devices"]
  /\ joinTrace' = [joinTrace EXCEPT ![c] = Append(@, "getLocalDevices")]
  /\ hangupSettled' = FALSE
  /\ UNCHANGED << props, preview, comp, joinData, hangupPc, hangupTrace,
                  leaveVars, obs >>

\* variant: enter() is not awaited, the reply follows its invocation at once
JoinDevicesResolved_NoAwait(c, a, v) ==
  /\ joinPc[c] = "devices"
  /\ joinData' = [audioInput |-> a, videoInput |-> v]
  /\ userChoices' = SetUserChoices(JoinChoices(joinData', Devices))
  /\ EnterInvoked(<<"join", c>>)
  /\ hangupListener' = EffectAfter(state')
  /\ started' = [started EXCEPT ![<<"join", c>>] = @ + 1]
  /\ alwaysOnScreen' = TRUE
  /\ replies' = [replies EXCEPT ![<<"join", c>>] = @ + 1]
  /\ joinPc' = [joinPc EXCEPT ![c] = "done"]
  /\ joinTrace' = [joinTrace EXCEPT ![c] =
        Append2(Append2(Append(@, "setUserChoices"), "enter", "callStarted"),
                "setAlwaysOnScreen(true)", "reply")]
  /\ UNCHANGED << props, preview, mounted, error, left, windowGroupCall, joinListener,
                  navigatedHome, hangupVars, leaveVars, callEnded, leaveCalls,
                  hostHangups >>

\* the device list arrives: the payload (audioInput a, videoInput v) is read,
\* the names are resolved (findDeviceByName reads only the handler's own
\* data), the choices are stored, enter() is awaited
JoinDevicesResolved(c, a, v) ==
  /\ joinPc[c] = "devices"
  /\ joinData' = [audioInput |-> a, videoInput |-> v]
  /\ userChoices' = SetUserChoices(JoinChoices(joinData', Devices))
  /\ EnterInvoked(<<"join", c>>)
  /\ hangupListener' = EffectAfter(state')
  /\ joinPc' = [joinPc EXCEPT ![c] = "enter"]
  /\ joinTrace' = [joinTrace EXCEPT ![c] = Append2(@, "setUserChoices", "enter")]
  /\ UNCHANGED << props, preview, mounted, error, left, windowGroupCall, joinListener,
                  navigatedHome, hangupVars, leaveVars, started,
                  callEnded, leaveCalls, replies, alwaysOnScreen, hostHangups >>

\* Room.getLocalDevices() rejects: onJoin has no handler for it and ends
JoinDevicesRejected(c) ==
  /\ joinPc[c] = "devices"
  /\ joinPc' = [joinPc EXCEPT ![c] = "failed"]
  /\ UNCHANGED << props, preview, comp, joinData, joinTrace, hangupVars, leaveVars, obs >>

\* enter() resolves: telemetry, then setAlwaysOnScreen(true) and the reply
JoinEnterResolved(c) ==
  /\ joinPc[c] = "enter"
  /\ EnterFulfilled(<<"join", c>>)
  /\ started' = [started EXCEPT ![<<"join", c>>] = @ + 1]
  /\ alwaysOnScreen' = TRUE
  /\ replies' = [replies EXCEPT ![<<"join", c>>] = @ + 1]
  /\ joinPc' = [joinPc EXCEPT ![c] = "done"]
  /\ joinTrace' = [joinTrace EXCEPT ![c] =
        Append2(Append2(@, "enterResolved", "callStarted"),
                "setAlwaysOnScreen(true)", "reply")]
  /\ UNCHANGED << props, preview, mounted, error, userChoices, left, windowGroupCall,
                  joinListener, navigatedHome, joinData, hangupVars, leaveVars,
                  callEnded, leaveCalls, hostHangups >>

\* enter() rejects: onJoin has no handler for it and ends
JoinEnterRejected(c) ==
  /\ joinPc[c] = "enter"
  /\ EnterFailed(<<"join", c>>)
  /\ joinPc' = [joinPc EXCEPT ![c] = "failed"]
  /\ UNCHANGED << props, preview, mounted, state, userChoices, left, windowGroupCall,
                  joinListener, hangupListener, navigatedHome, joinData,
                  joinTrace, hangupVars, leaveVars, started, callEnded,
                  leaveCalls, replies, alwaysOnScreen, hostHangups >>

\* ------------------------------------------------- user leave (onLeave)
\* the trailing history.push("/") of onLeave
PushedHome == ~isPasswordlessUser /\ ~isEmbedded /\ ~analyticsEnabled

\* variant: the settle delay is not awaited before the host is notified
OnLeave_NoSettle(k) ==
  /\ mounted = "yes"
  /\ View = "ActiveCall"
  /\ leavePc[k] = "idle"
  /\ \A j \in LeaveIds : j < k => leavePc[j] # "idle"
  /\ left' = TRUE
  /\ callEnded' = callEnded + 1
  /\ LeaveInvoked
  /\ leavePc' = [leavePc EXCEPT ![k] = "done"]
  /\ navigatedHome' = (navigatedHome \/ PushedHome)
  /\ IF widget
     THEN /\ alwaysOnScreen' = FALSE
          /\ hostHangups' = hostHangups + 1
          /\ leaveTrace' = [leaveTrace EXCEPT ![k] =
                Append2(Append2(Append(@, "callEnded"), "leave",
                                "setAlwaysOnScreen(false)"),
                        "logout", "sendHangup")]
     ELSE /\ leaveTrace' = [leaveTrace EXCEPT ![k] =
                Append2(@, "callEnded", "leave")]
          /\ UNCHANGED << alwaysOnScreen, hostHangups >>
  /\ hangupSettled' = (hangupSettled \/ widget)
  /\ UNCHANGED << props, preview, mounted, error, userChoices, windowGroupCall,
                  joinListener, joinVars, hangupPc, hangupTrace, enterStatus, started,
                  replies >>

\* ActiveCall's leave button: setLeft, "call ended" event, leave(); in widget
\* mode the settle delay is awaited
OnLeave(k) ==
  /\ mounted = "yes"
  /\ View = "ActiveCall"
  /\ leavePc[k] = "idle"
  /\ \A j \in LeaveIds : j < k => leavePc[j] # "idle"
  /\ left' = TRUE
  /\ callEnded' = callEnded + 1
  /\ LeaveInvoked
  /\ leaveTrace' = [leaveTrace EXCEPT ![k] = Append2(@, "callEnded", "leave")]
  /\ IF widget
     THEN /\ leavePc' = [leavePc EXCEPT ![k] = "settle"]
          /\ UNCHANGED navigatedHome
     ELSE /\ leavePc' = [leavePc EXCEPT ![k] = "done"]
          /\ navigatedHome' = (navigatedHome \/ PushedHome)
  /\ UNCHANGED << props, preview, mounted, error, userChoices, windowGroupCall,
                  joinListener, joinVars, hangupVars, enterStatus, started,
                  replies, alwaysOnScreen, hostHangups >>

\* the 10 ms timer fires: setAlwaysOnScreen(false), logout, HangupCall to the host
LeaveSettled(k) ==
  /\ leavePc[k] = "settle"
  /\ alwaysOnScreen' = FALSE
  /\ hostHangups' = hostHangups + 1
  /\ leaveTrace' = [leaveTrace EXCEPT ![k] =
        Append2(Append2(@, "settled", "setAlwaysOnScreen(false)"),
                "logout", "sendHangup")]
  /\ leavePc' = [leavePc EXCEPT ![k] = "done"]
  /\ navigatedHome' = (navigatedHome \/ PushedHome)
  /\ hangupSettled' = TRUE
  /\ UNCHANGED << props, preview, mounted, state, error, userChoices, left,
                  windowGroupCall, joinListener, hangupListener, joinVars,
                  hangupPc, hangupTrace, enterStatus, started, callEnded,
                  leaveCalls, replies >>

\* --------------------------------------------- HangupCall (host -> onHangup)
\* the host posts HangupCall; widget.lazyActions holds it until onHangup listens
HostSendHangup(h) ==
  /\ widget
  /\ hangupPc[h] = "unsent"
  /\ \A j \in HangupCmds : j < h => hangupPc[j] # "unsent"
  /\ hangupPc' = [hangupPc EXCEPT ![h] = "sent"]
  /\ UNCHANGED << props, preview, comp, joinVars, hangupTrace, hangupSettled, leaveVars, obs >>

\* variant: always-on-screen is cleared before the reply is sent
OnHangup_ClearFirst(h) ==
  /\ hangupListener
  /\ hangupPc[h] = "sent"
  /\ \A j \in HangupCmds : j < h => hangupPc[j] # "sent"
  /\ LeaveInvoked
  /\ alwaysOnScreen' = FALSE
  /\ replies' = [replies EXCEPT ![<<"hangup", h>>] = @ + 1]
  /\ hangupPc' = [hangupPc EXCEPT ![h] = "replying"]
  /\ hangupTrace' = [hangupTrace EXCEPT ![h] =
        Append2(Append(@, "leave"), "setAlwaysOnScreen(false)", "reply")]
  /\ UNCHANGED << props, hangupSettled, preview, mounted, error, userChoices,
                  left, windowGroupCall, joinListener, navigatedHome, joinVars, leaveVars, enterStatus,
                  started, callEnded, hostHangups >>

\* onHangup runs on the oldest pending command (the once-listener is
\* consumed): leave(), the reply is awaited
OnHangup(h) ==
  /\ hangupListener
  /\ hangupPc[h] = "sent"
  /\ \A j \in HangupCmds : j < h => hangupPc[j] # "sent"
  /\ LeaveInvoked
  /\ replies' = [replies EXCEPT ![<<"hangup", h>>] = @ + 1]
  /\ hangupPc' = [hangupPc EXCEPT ![h] = "replying"]
  /\ hangupTrace' = [hangupTrace EXCEPT ![h] = Append2(@, "leave", "reply")]
  /\ UNCHANGED << props, hangupSettled, preview, mounted, error, userChoices,
                  left, windowGroupCall, joinListener, navigatedHome, joinVars, leaveVars, enterStatus,
                  started, callEnded, alwaysOnScreen, hostHangups >>

\* the reply's promise resolves: setAlwaysOnScreen(false)
HangupReplied(h) ==
  /\ hangupPc[h] = "replying"
  /\ alwaysOnScreen' = FALSE
  /\ hangupPc' = [hangupPc EXCEPT ![h] = "done"]
  /\ hangupTrace' = [hangupTrace EXCEPT ![h] =
        Append2(@, "replyResolved", "setAlwaysOnScreen(false)")]
  /\ hangupSettled' = TRUE
  /\ UNCHANGED << props, preview, comp, joinVars, leaveVars, enterStatus, started,
                  callEnded, leaveCalls, replies, hostHangups >>

\* ------------------------------------------------------------------ Next
Next ==
  \/ Mount
  \/ Unmount
  \/ GroupCallError
  \/ \E o \in Origins, ok \in BOOLEAN : EnterSettled(o, ok)
  \/ \E k \in LobbyIds, ch \in LobbyChoices : LobbyEnter(k, ch)
  \/ \E c \in JoinCmds : HostSendJoin(c)
  \/ \E c \in JoinCmds : OnJoin(c)
  \/ \E c \in JoinCmds, a \in AudioInputs, v \in VideoInputs :
        JoinDevicesResolved(c, a, v)
  \/ \E c \in JoinCmds : JoinDevicesRejected(c)
  \/ \E c \in JoinCmds : JoinEnterResolved(c)
  \/ \E c \in JoinCmds : JoinEnterRejected(c)
  \/ \E k \in LeaveIds : OnLeave(k)
  \/ \E k \in LeaveIds : LeaveSettled(k)
  \/ \E h \in HangupCmds : HostSendHangup(h)
  \/ \E h \in HangupCmds : OnHangup(h)
  \/ \E h \in HangupCmds : HangupReplied(h)

Spec == Init /\ [][Next]_vars

TypeOK ==
  /\ state \in RemoteStates
  /\ mounted \in {"no", "yes", "gone"}
  /\ userChoices.defined \in BOOLEAN

\* ------------------------------------------- view selection on all inputs
\* every value of userChoices the view can be given ({} is a defined value)
ViewChoices == {Undefined, Choices(NoChoice, NoChoice)} \cup LobbyChoices

InitView ==
  /\ widget \in BOOLEAN
  /\ preload \in BOOLEAN
  /\ isEmbedded \in BOOLEAN
  /\ isPasswordlessUser \in BOOLEAN
  /\ analyticsEnabled \in BOOLEAN
  /\ livekitServiceURL \in BOOLEAN
  /\ mounted = "yes"
  /\ state \in RemoteStates
  /\ error \in BOOLEAN
  /\ userChoices \in ViewChoices
  /\ left \in BOOLEAN
  /\ windowGroupCall = TRUE
  /\ joinListener = FALSE
  /\ hangupListener = FALSE
  /\ navigatedHome = FALSE
  /\ joinPc = [c \in JoinCmds |-> "unsent"]
  /\ joinData = [audioInput |-> Null, videoInput |-> Null]
  /\ joinTrace = [c \in JoinCmds |-> << >>]
  /\ hangupPc = [h \in HangupCmds |-> "unsent"]
  /\ hangupTrace = [h \in HangupCmds |-> << >>]
  /\ hangupSettled = FALSE
  /\ leavePc = [k \in LeaveIds |-> "idle"]
  /\ leaveTrace = [k \in LeaveIds |-> << >>]
  /\ enterStatus = [o \in Origins |-> "none"]
  /\ started = [o \in Origins |-> 0]
  /\ callEnded = 0
  /\ leaveCalls = 0
  /\ replies = [c \in ({"join"} \X JoinCmds) \cup ({"hangup"} \X HangupCmds) |-> 0]
  /\ alwaysOnScreen = FALSE
  /\ hostHangups = 0
  /\ PreviewIdle

\* a render of GroupCallView with changed hook results
Render(st, err, uc, lf) ==
  /\ state' = st
  /\ error' = err
  /\ userChoices' = uc
  /\ left' = lf
  /\ UNCHANGED << props, preview, mounted, windowGroupCall, joinListener, hangupListener,
                  navigatedHome, joinVars, hangupVars, leaveVars, obs >>

NextView ==
  \E st \in RemoteStates, err \in BOOLEAN, uc \in ViewChoices, lf \in BOOLEAN :
    Render(st, err, uc, lf)

SpecView == InitView /\ [][NextView]_vars

\* ------------------------------------------------------------ VideoPreview
\* variant: the enabled flag is not passed on
createChoices_AlwaysEnabled(en, deviceId) ==
  IF deviceId # "" THEN DeviceChoice(deviceId, TRUE) ELSE NoChoice

\* createChoices(enabled, deviceId) of the settings effect
createChoices(en, deviceId) ==
  IF deviceId # "" THEN DeviceChoice(deviceId, en) ELSE NoChoice

\* the argument the settings effect gives to onUserChoicesChanged
UserChoicesChanged(en, sel) ==
  Choices(createChoices(en["audioinput"], sel["audioinput"]),
          createChoices(en["videoinput"], sel["videoinput"]))

\* variant: the options follow the current default-device settings
PreviewOptions_Live(ref, defaults) == defaults

\* the device ids given to usePreviewTracks: those of the ref
PreviewOptions(ref, defaults) == ref

\* variant: the switcher may always request permissions
RequestPermissions_Always(videoTrack) == TRUE

\* requestPermissions = !!videoTrack
RequestPermissions(videoTrack) == videoTrack # "none"

\* setSelected(id) of the switcher for kind k: the selection changes, and the
\* default-device setting with it
SetSelected(k, id) ==
  /\ selectedId' = [selectedId EXCEPT ![k] = id]
  /\ defaultDevices' = [defaultDevices EXCEPT ![k] = id]

\* what every render after the first recomputes: the options of
\* usePreviewTracks (new options restart the acquisition) and, through the
\* settings effect, the emitted choices
Rendered ==
  /\ trackOptions' = PreviewOptions(initialDefaultDevices, defaultDevices')
  /\ emitted' = UserChoicesChanged(enabled', selectedId')

\* first render of VideoPreview: the ref captures the default devices, the
\* acquisition of the preview tracks starts, the settings effect emits
PreviewMount ==
  /\ ~previewMounted
  /\ previewMounted' = TRUE
  /\ initialDefaultDevices' = defaultDevices
  /\ defaultsAtMount' = defaultDevices
  /\ trackOptions' = PreviewOptions(initialDefaultDevices', defaultDevices)
  /\ acquiring' = TRUE
  /\ emitted' = UserChoicesChanged(enabled, selectedId)
  /\ UNCHANGED << session, defaultDevices, tracks, selectedId, enabled, idQuery,
                  lastExplicit, enumerations, permissionRequests >>

\* usePreviewTracks delivers: per kind a track (with the device id it will
\* report) or none; the device-selection effect queries the ids it misses
TracksAcquired(a, v) ==
  /\ previewMounted /\ acquiring
  /\ acquiring' = FALSE
  /\ tracks' = [k \in Kinds |-> IF k = "audioinput" THEN a ELSE v]
  /\ idQuery' = [k \in Kinds |-> idQuery[k] \/ (selectedId[k] = "" /\ tracks'[k] # "none")]
  /\ UNCHANGED << session, previewMounted, defaultDevices, initialDefaultDevices,
                  defaultsAtMount, trackOptions, selectedId, enabled, emitted,
                  lastExplicit, enumerations, permissionRequests >>

\* track.getDeviceId() resolves for kind k: a defined id is given to setSelected
DeviceIdResolved(k) ==
  /\ idQuery[k]
  /\ idQuery' = [idQuery EXCEPT ![k] = FALSE]
  /\ IF tracks[k] # "unknown"
     THEN SetSelected(k, tracks[k])
     ELSE UNCHANGED << selectedId, defaultDevices >>
  /\ UNCHANGED enabled
  /\ Rendered
  /\ UNCHANGED << session, previewMounted, initialDefaultDevices,
                  defaultsAtMount, acquiring, tracks, lastExplicit, enumerations,
                  permissionRequests >>

\* the user picks device id for kind k in the settings modal
UserSelect(k, id) ==
  /\ previewMounted
  /\ id # selectedId[k]
  /\ SetSelected(k, id)
  /\ lastExplicit' = [lastExplicit EXCEPT ![k] = id]
  /\ UNCHANGED enabled
  /\ Rendered
  /\ UNCHANGED << session, previewMounted, initialDefaultDevices,
                  defaultsAtMount, acquiring, tracks, idQuery, enumerations,
                  permissionRequests >>

\* MicButton / VideoButton: setAudioEnabled(!audioEnabled) / setVideoEnabled
SetEnabled(k) ==
  /\ previewMounted
  /\ enabled' = [enabled EXCEPT ![k] = ~@]
  /\ UNCHANGED << selectedId, defaultDevices >>
  /\ Rendered
  /\ UNCHANGED << session, previewMounted, initialDefaultDevices,
                  defaultsAtMount, acquiring, tracks, idQuery, lastExplicit,
                  enumerations, permissionRequests >>

\* the default-device setting of kind k is changed outside the preview
DefaultChanged(k, id) ==
  /\ id # defaultDevices[k]
  /\ defaultDevices' = [defaultDevices EXCEPT ![k] = id]
  /\ IF previewMounted
     THEN UNCHANGED << enabled, selectedId >> /\ Rendered
     ELSE UNCHANGED << enabled, selectedId, trackOptions, emitted >>
  /\ UNCHANGED << session, previewMounted, initialDefaultDevices,
                  defaultsAtMount, acquiring, tracks, idQuery, lastExplicit,
                  enumerations, permissionRequests >>

\* the switcher enumerates the devices; it asks for permissions only when
\* it was given requestPermissions = true
SwitcherEnumerate ==
  /\ previewMounted
  /\ enumerations < MaxEnumerate
  /\ enumerations' = enumerations + 1
  /\ permissionRequests' =
       permissionRequests +
         (IF RequestPermissions(tracks["videoinput"]) THEN 1 ELSE 0)
  /\ UNCHANGED << session, previewMounted, defaultDevices, initialDefaultDevices,
                  defaultsAtMount, trackOptions, acquiring, tracks, selectedId,
                  enabled, idQuery, emitted, lastExplicit >>

TrackValues(k) == {"none", "unknown"} \cup DeviceIds(k)

InitPreview ==
  /\ widget = FALSE /\ preload = FALSE /\ isEmbedded = FALSE
  /\ isPasswordlessUser = FALSE /\ analyticsEnabled = FALSE
  /\ livekitServiceURL = TRUE
  /\ mounted = "yes"
  /\ state = "NotEntered"
  /\ error = FALSE
  /\ userChoices = Undefined
  /\ left = FALSE
  /\ windowGroupCall = TRUE
  /\ joinListener = FALSE
  /\ hangupListener = FALSE
  /\ navigatedHome = FALSE
  /\ joinPc = [c \in JoinCmds |-> "unsent"]
  /\ joinData = [audioInput |-> Null, videoInput |-> Null]
  /\ joinTrace = [c \in JoinCmds |-> << >>]
  /\ hangupPc = [h \in HangupCmds |-> "unsent"]
  /\ hangupTrace = [h \in HangupCmds |-> << >>]
  /\ hangupSettled = FALSE
  /\ leavePc = [k \in LeaveIds |-> "idle"]
  /\ leaveTrace = [k \in LeaveIds |-> << >>]
  /\ enterStatus = [o \in Origins |-> "none"]
  /\ started = [o \in Origins |-> 0]
  /\ callEnded = 0
  /\ leaveCalls = 0
  /\ replies = [c \in ({"join"} \X JoinCmds) \cup ({"hangup"} \X HangupCmds) |-> 0]
  /\ alwaysOnScreen = FALSE
  /\ hostHangups = 0
  /\ previewMounted = FALSE
  /\ defaultDevices \in [Kinds -> {"", "mic-1", "cam-1"}]
  /\ \A k \in Kinds : defaultDevices[k] \in {""} \cup DeviceIds(k)
  /\ initialDefaultDevices = NoIds
  /\ defaultsAtMount = NoIds
  /\ trackOptions = NoIds
  /\ acquiring = FALSE
  /\ tracks = [k \in Kinds |-> "none"]
  /\ selectedId = NoIds
  /\ enabled = [k \in Kinds |-> TRUE]
  /\ idQuery = [k \in Kinds |-> FALSE]
  /\ emitted = Undefined
  /\ lastExplicit = NoIds
  /\ enumerations = 0
  /\ permissionRequests = 0

NextPreview ==
  \/ PreviewMount
  \/ \E a \in TrackValues("audioinput"), v \in TrackValues("videoinput") :
       TracksAcquired(a, v)
  \/ \E k \in Kinds : DeviceIdResolved(k)
  \/ \E k \in Kinds : \E id \in DeviceIds(k) : UserSelect(k, id)
  \/ \E k \in Kinds : SetEnabled(k)
  \/ \E k \in Kinds : \E id \in DeviceIds(k) : DefaultChanged(k, id)
  \/ SwitcherEnumerate

SpecPreview == InitPreview /\ [][NextPreview]_vars

\* ------------------------------------------------------- trace predicates
Has(tr, e) == \E i \in DOMAIN tr : tr[i] = e

\* the events of seq occur in tr, in that order
RECURSIVE InOrder(_, _)
InOrder(tr, seq) ==
  IF seq = << >> THEN TRUE
  ELSE IF tr = << >> THEN FALSE
  ELSE IF Head(tr) = Head(seq) THEN InOrder(Tail(tr), Tail(seq))
  ELSE InOrder(Tail(tr), seq)

InFlight == { o \in Origins : enterStatus[o] = "inflight" }

\* ------------------------------------------------------------------ claims

\* C1: whenever no service URL is resolvable or an error is present, the
\* selected view is Error, whatever the other inputs are (in particular with
\* remoteState = Entered and userChoices present).
C1_ErrorOutranks ==
  (~livekitServiceURL \/ error) => View = "Error"

C1_Witness ==
  /\ livekitServiceURL /\ error
  /\ state = "Entered" /\ userChoices.defined
  /\ View = "Error"

\* C2: a JoinCall command is replied to (and setAlwaysOnScreen(true) is sent)
\* only after its handler stored the UserChoices, invoked enter() and saw
\* enter() resolve, in that order.
C2_ReplyAfterEnter ==
  \A c \in JoinCmds :
    /\ replies[<<"join", c>>] > 0 => Has(joinTrace[c], "reply")
    /\ Has(joinTrace[c], "reply") =>
         /\ InOrder(joinTrace[c],
                    << "setUserChoices", "enter", "enterResolved", "reply" >>)
         /\ enterStatus[<<"join", c>>] = "ok"
    /\ Has(joinTrace[c], "setAlwaysOnScreen(true)") =>
         InOrder(joinTrace[c], << "setUserChoices", "enter", "enterResolved",
                                  "setAlwaysOnScreen(true)" >>)
    /\ joinPc[c] \in {"sent", "devices", "enter"} => replies[<<"join", c>>] = 0

C2_Witness ==
  \E c \in JoinCmds : replies[<<"join", c>>] = 1 /\ joinPc[c] = "done"

\* C3: every JoinCall or HangupCall command receives exactly one reply: never
\* a second one, and a handler that has ended has sent one.
C3_ExactlyOneReply ==
  /\ \A c \in JoinCmds :
       /\ replies[<<"join", c>>] <= 1
       /\ joinPc[c] \in {"done", "failed"} => replies[<<"join", c>>] = 1
  /\ \A h \in HangupCmds :
       /\ replies[<<"hangup", h>>] <= 1
       /\ hangupPc[h] \in {"replying", "done"} => replies[<<"hangup", h>>] = 1

\* C4: on a user-initiated leave in widget mode the "call ended" event, leave(),
\* the settle delay, the clearing of always-on-screen and the HangupCall
\* notification occur in this order; no notification is sent while the settle
\* delay is pending.
C4_HangupAfterSettle ==
  /\ \A k \in LeaveIds :
       /\ Has(leaveTrace[k], "sendHangup") =>
            InOrder(leaveTrace[k], << "callEnded", "leave", "settled",
                                     "setAlwaysOnScreen(false)", "sendHangup" >>)
       /\ leavePc[k] = "settle" =>
            leaveTrace[k] = << "callEnded", "leave" >>
  /\ hostHangups = Cardinality({ k \in LeaveIds : Has(leaveTrace[k], "sendHangup") })
  /\ hostHangups = Cardinality({ k \in LeaveIds : widget /\ leavePc[k] = "done" })

C4_Witness ==
  \E k \in LeaveIds : widget /\ leavePc[k] = "done" /\ hostHangups = 1

\* C5: at most one enter() call is in flight per session.
C5_AtMostOneEnterInFlight ==
  Cardinality(InFlight) <= 1

\* C6: "call started" is tracked exactly once for every enter() that resolved
\* successfully, and not at all for an enter() that has not completed or failed.
C6_StartedOncePerSuccessfulEnter ==
  \A o \in Origins : started[o] = (IF enterStatus[o] = "ok" THEN 1 ELSE 0)

\* C7: with left true and no higher-priority rule matching, the view is
\* CallEnded iff the user is passwordless or (analytics is enabled and the
\* session is not embedded); otherwise nothing is rendered, never the Lobby.
C7_LeftRule ==
  (/\ left /\ livekitServiceURL /\ ~error
   /\ ~(state = "Entered" /\ userChoices.defined))
  => /\ View = "CallEnded" <=>
          (isPasswordlessUser \/ (analyticsEnabled /\ ~isEmbedded))
     /\ View \in {"CallEnded", "Nothing"}

C7_Witness ==
  /\ left /\ livekitServiceURL /\ ~error
  /\ ~(state = "Entered" /\ userChoices.defined)
  /\ isEmbedded /\ ~isPasswordlessUser /\ ~analyticsEnabled
  /\ View = "Nothing"

\* C8: the selected view is the first matching row of the ordered table
\* Error, Error, ActiveCall, left rule, preload -> nothing, isEmbedded ->
\* loading placeholder, otherwise Lobby.
ViewTable ==
  << << ~livekitServiceURL, "Error" >>,
     << error, "Error" >>,
     << state = "Entered" /\ userChoices.defined, "ActiveCall" >>,
     << left /\ (isPasswordlessUser \/ (analyticsEnabled /\ ~isEmbedded)),
        "CallEnded" >>,
     << left, "Nothing" >>,
     << preload, "Nothing" >>,
     << isEmbedded, "Loading" >>,
     << TRUE, "Lobby" >> >>

FirstMatch(table) ==
  table[CHOOSE i \in DOMAIN table :
          table[i][1] /\ \A j \in DOMAIN table : j < i => ~table[j][1]][2]

C8_FirstMatchWins ==
  View = FirstMatch(ViewTable)

C8_Witness ==
  /\ livekitServiceURL /\ ~error /\ ~left
  /\ state # "Entered"
  /\ preload /\ isEmbedded
  /\ View = "Nothing"

\* C9: the loading placeholder is selected only when isEmbedded is true,
\* preload is false and the remote state is not Entered.
C9_LoadingOnlyBeforeEntered ==
  View = "Loading" => (isEmbedded /\ ~preload /\ state # "Entered")

\* C10: a host HangupCall is handled in the order leave(), reply to the host,
\* and, only once the reply has completed, clearing of always-on-screen.
C10_HangupOrder ==
  \A h \in HangupCmds :
    /\ hangupPc[h] = "replying" => hangupTrace[h] = << "leave", "reply" >>
    /\ Has(hangupTrace[h], "setAlwaysOnScreen(false)") =>
         InOrder(hangupTrace[h], << "leave", "reply", "replyResolved",
                                    "setAlwaysOnScreen(false)" >>)
    /\ hangupPc[h] = "done" => Has(hangupTrace[h], "setAlwaysOnScreen(false)")

C10_Witness ==
  \E h \in HangupCmds : hangupPc[h] = "done" /\ ~alwaysOnScreen

\* C11: the UserChoices a JoinCall handler stores has, for each medium, the
\* entry {selectedId: id, enabled: true} exactly when a name was given and an
\* enumerated device of that kind carries it (id being that device's id), and
\* no entry otherwise; whatever the names, enter() is invoked with the
\* storing, and the reply is sent once that enter() has resolved.
EntryMatches(entry, name, kind) ==
  /\ Len(entry) = 1 <=>
       (name # Null /\ \E d \in Devices : d.kind = kind /\ d.label = name)
  /\ Len(entry) = 1 =>
       /\ entry[1].enabled
       /\ \E d \in Devices :
            d.kind = kind /\ d.label = name /\ d.deviceId = entry[1].selectedId

C11_JoinChoices ==
  /\ (mounted = "yes" /\ \E c \in JoinCmds : Has(joinTrace[c], "setUserChoices"))
     => /\ userChoices.defined
        /\ EntryMatches(userChoices.audio, joinData.audioInput, "audioinput")
        /\ EntryMatches(userChoices.video, joinData.videoInput, "videoinput")
  /\ \A c \in JoinCmds :
       /\ Has(joinTrace[c], "setUserChoices") <=> enterStatus[<<"join", c>>] # "none"
       /\ enterStatus[<<"join", c>>] = "ok" => replies[<<"join", c>>] = 1

C11_Witness ==
  /\ mounted = "yes"
  /\ joinData = [audioInput |-> "Ghost Mic", videoInput |-> "HD Camera"]
  /\ userChoices = Choices(NoChoice, DeviceChoice("cam-1", TRUE))
  /\ \E c \in JoinCmds : joinPc[c] = "done" /\ replies[<<"join", c>>] = 1

\* C12: after any sequence of setEnabled toggles and device selections the
\* most recently emitted UserChoices is the function of the current state:
\* per medium no entry when no device id is selected, otherwise
\* {selectedId: the current selected id, enabled: the latest enabled flag};
\* both media are recomputed in every emission.
EntryReflects(entry, k) ==
  /\ Len(entry) = 1 <=> selectedId[k] # ""
  /\ Len(entry) = 1 =>
       entry[1].selectedId = selectedId[k] /\ entry[1].enabled = enabled[k]

C12_EmittedReflectsState ==
  previewMounted =>
    /\ emitted.defined
    /\ EntryReflects(emitted.audio, "audioinput")
    /\ EntryReflects(emitted.video, "videoinput")

C12_Witness ==
  /\ previewMounted /\ ~acquiring
  /\ tracks["videoinput"] = "none" /\ selectedId["videoinput"] = ""
  /\ ~enabled["audioinput"] /\ ~enabled["videoinput"]
  /\ emitted = Choices(DeviceChoice("mic-2", FALSE), NoChoice)

\* C13: once the user has explicitly selected a device for a medium, the
\* selected id of that medium is never replaced by the id a track resolves
\* to: it stays the id the user selected last.
C13_ExplicitChoiceKept ==
  \A k \in Kinds : lastExplicit[k] # "" => selectedId[k] = lastExplicit[k]

\* C14: while the Preview Track Manager has produced no video track, the
\* switcher's permission-request flag is false and no enumeration-permission
\* request has been made.
C14_NoPermissionBeforeVideoTrack ==
  tracks["videoinput"] = "none" =>
    /\ ~RequestPermissions(tracks["videoinput"])
    /\ permissionRequests = 0

C14_Witness ==
  /\ previewMounted /\ ~acquiring
  /\ tracks["videoinput"] = "none" /\ tracks["audioinput"] # "none"
  /\ enumerations = MaxEnumerate
  /\ permissionRequests = 0

\* C15: the device ids used for the acquisition of the preview tracks are the
\* default-device settings of the first render; later changes of the settings
\* or of the switcher's selection leave them unchanged.
C15_FrozenIds ==
  previewMounted =>
    /\ trackOptions = defaultsAtMount
    /\ initialDefaultDevices = defaultsAtMount

C15_Witness ==
  /\ previewMounted /\ ~acquiring
  /\ defaultsAtMount = [k \in Kinds |-> IF k = "audioinput" THEN "mic-1" ELSE ""]
  /\ defaultDevices = [k \in Kinds |-> IF k = "audioinput" THEN "mic-2" ELSE "cam-2"]
  /\ selectedId["videoinput"] = "cam-2"
  /\ trackOptions = defaultsAtMount

\* C16: every invocation of leave() is accompanied by exactly one "call
\* ended" event, and on the user-initiated path the event is tracked before
\* leave() is invoked.
C16_CallEndedPerLeave ==
  /\ callEnded = leaveCalls
  /\ \A k \in LeaveIds :
       Has(leaveTrace[k], "leave") => InOrder(leaveTrace[k], << "callEnded", "leave" >>)

\* C17: the process-wide reference window.groupCall is set in every state in
\* which the session is mounted and is not set when no session is mounted,
\* whatever the state the session was unmounted in.
C17_ActiveCallReference ==
  windowGroupCall <=> (mounted = "yes")

C17_Witness ==
  /\ mounted = "gone" /\ ~windowGroupCall
  /\ state = "Entered" /\ left

\* C18: the HangupCall listener is registered only while a widget exists and
\* the state is Entered, the JoinCall listener only while a widget exists and
\* preload is true; no listener remains after the unmount; a HangupCall
\* command is handled at most once.
C18_ListenersOnlyWhileValid ==
  /\ hangupListener => (widget /\ mounted = "yes" /\ state = "Entered")
  /\ joinListener => (widget /\ preload /\ mounted = "yes")
  /\ \A h \in HangupCmds :
       /\ Cardinality({ i \in DOMAIN hangupTrace[h] : hangupTrace[h][i] = "leave" }) <= 1
       /\ replies[<<"hangup", h>>] <= 1

C18_Witness ==
  /\ mounted = "gone" /\ ~hangupListener /\ ~joinListener
  /\ \E c \in JoinCmds : joinPc[c] = "done"
  /\ \E h \in HangupCmds : hangupPc[h] = "done"
  /\ \E h \in HangupCmds : hangupPc[h] = "sent"

\* C19: once a hangup has completed all its steps, and until a JoinCall is
\* received, the always-on-screen flag is false.
C19_FlagStaysCleared ==
  hangupSettled => ~alwaysOnScreen

\* C20: once leave() has been invoked in a session, the Lobby view is never
\* selected again.
C20_NoLobbyAfterLeave ==
  leaveCalls > 0 => View # "Lobby"

====
